---- MODULE Spec2Model ----
(***************************************************************************)
(* Model of marketing/maketing.py: a batch runner (main) that calls        *)
(* send_newsletter once per entry of emailList.  One send attempt reads    *)
(* the HTML template, opens an SMTP connection, upgrades it (STARTTLS),    *)
(* logs in, transmits the message and quits.  The relay and the            *)
(* filesystem are the environment: every call into them either returns    *)
(* or raises one of the exception classes that call can raise.             *)
(***************************************************************************)
EXTENDS Integers, Sequences, FiniteSets, TLC

VARIABLES
    emailList,      \* module-level recipient list (line 9)
    pc,             \* position of the single thread of control
    idx,            \* number of list entries the for loop has taken
    recipient,      \* loop variable / argument of send_newsletter
    success_count,  \* main's counters
    fail_count,
    html_content,   \* local of send_newsletter
    server,         \* local of send_newsletter: id of its SMTP object, 0 = unbound
    exc,            \* exception in flight inside send_newsletter's try
    ret,            \* value returned by send_newsletter
    reason,         \* which outcome line the attempt printed
    open,           \* ids of the relay connections that are open
    nconn,          \* number of connections opened so far
    trace,          \* calls made to the filesystem and the relay, in order
    outcomes,       \* one record per returned attempt, in order
    summary         \* the final summary printed by main, <<>> before that

vars == <<emailList, pc, idx, recipient, success_count, fail_count,
          html_content, server, exc, ret, reason, open, nconn, trace,
          outcomes, summary>>

\* ---------------------------------------------------------------- bounds
MaxRecipients == 2

Addresses == {"a@x.com", "b@x.com"}

RecipientLists == UNION {[1..n -> Addresses] : n \in 0..MaxRecipients}

\* ------------------------------------------------------- the environment
\* What open(html_file) can find at the time of one read.
TemplateFiles == {"missing", "empty", "html", "unreadable"}

\* Exception classes raised by the calls of one attempt.
SMTPErrors == {"SMTPAuthenticationError", "SMTPConnectError",
               "SMTPNotSupportedError", "SMTPRecipientsRefused",
               "SMTPServerDisconnected"}

OSErrors == SMTPErrors \cup {"SMTPException", "FileNotFoundError",
               "PermissionError", "ConnectionRefusedError", "SSLError"}

\* The classes an exception of class e is an instance of.
Bases(e) ==
    {e} \cup (IF e \in SMTPErrors THEN {"SMTPException"} ELSE {})
        \cup (IF e \in OSErrors THEN {"OSError"} ELSE {})
        \cup {"Exception"}

IsInstance(e, cls) == cls \in Bases(e)

\* The exceptions each call of send_newsletter can raise.
Raises(op) ==
    CASE op = "connect"      -> {"ConnectionRefusedError", "SMTPConnectError"}
      [] op = "starttls"     -> {"SMTPNotSupportedError", "SMTPServerDisconnected", "SSLError"}
      [] op = "login"        -> {"SMTPAuthenticationError", "SMTPServerDisconnected"}
      [] op = "send_message" -> {"SMTPRecipientsRefused", "SMTPServerDisconnected"}
      [] op = "quit"         -> {"SMTPServerDisconnected"}

\* smtplib closes the socket itself before raising these.
ClosedByLibrary(e) == e \in {"SMTPServerDisconnected", "SMTPConnectError"}

\* ------------------------------------------------------ pure functions
\* read_html_template: the value returned, the line printed and the
\* exception that escapes, for what open() finds.
read_html_template(file) ==
    CASE file = "html"       -> [val |-> "html", printed |-> "none",     raised |-> "none"]
      [] file = "empty"      -> [val |-> "",     printed |-> "none",     raised |-> "none"]
      [] file = "missing"    -> [val |-> "None", printed |-> "notfound", raised |-> "none"]
      [] file = "unreadable" -> [val |-> "None", printed |-> "none",     raised |-> "PermissionError"]

\* Variant: the emptiness check is absent.
NotNever(v) == FALSE

\* Variant: only None is rejected (`html_content is None`).
NotNoneOnly(v) == v = "None"

\* Python truthiness of the template value: `not html_content`.
Not(v) == v \in {"None", ""}

\* Variant: no catch-all clause.
HandlerNoCatchAll(e) ==
    IF IsInstance(e, "SMTPAuthenticationError") THEN "auth"
    ELSE IF IsInstance(e, "SMTPException") THEN "smtp"
    ELSE "uncaught"

\* Variant: the SMTPException clause precedes the authentication clause.
HandlerSmtpFirst(e) ==
    IF IsInstance(e, "SMTPException") THEN "smtp"
    ELSE IF IsInstance(e, "SMTPAuthenticationError") THEN "auth"
    ELSE IF IsInstance(e, "Exception") THEN "other"
    ELSE "uncaught"

\* Variant: no SMTPException clause.
HandlerNoSmtpClause(e) ==
    IF IsInstance(e, "SMTPAuthenticationError") THEN "auth"
    ELSE IF IsInstance(e, "Exception") THEN "other"
    ELSE "uncaught"

\* The except clauses of send_newsletter, tried in source order.
Handler(e) ==
    IF IsInstance(e, "SMTPAuthenticationError") THEN "auth"
    ELSE IF IsInstance(e, "SMTPException") THEN "smtp"
    ELSE IF IsInstance(e, "Exception") THEN "other"
    ELSE "uncaught"

\* Variant: login directly after connect, no starttls.
AfterSkipsUpgrade(op) ==
    CASE op = "read"         -> "connect"
      [] op = "connect"      -> "login"
      [] op = "starttls"     -> "login"
      [] op = "login"        -> "send_message"
      [] op = "send_message" -> "quit"
      [] op = "quit"         -> "return"

\* The statement that follows a call that returned normally.
After(op) ==
    CASE op = "read"         -> "connect"
      [] op = "connect"      -> "starttls"
      [] op = "starttls"     -> "login"
      [] op = "login"        -> "send_message"
      [] op = "send_message" -> "quit"
      [] op = "quit"         -> "return"

\* Variant: a failed attempt is not counted.
TallyDropsFailure(ok, s, f) == IF ok THEN <<s + 1, f>> ELSE <<s, f>>

\* main's tally of one returned attempt.
Tally(ok, s, f) == IF ok THEN <<s + 1, f>> ELSE <<s, f + 1>>

Call(op, conn, res) == [k |-> idx, op |-> op, conn |-> conn, res |-> res]

\* ------------------------------------------------------------------ Init
Init ==
    /\ emailList \in RecipientLists
    /\ pc = "main"
    /\ idx = 0
    /\ recipient = "none"
    /\ success_count = 0
    /\ fail_count = 0
    /\ html_content = "None"
    /\ server = 0
    /\ exc = "none"
    /\ ret = FALSE
    /\ reason = "none"
    /\ open = {}
    /\ nconn = 0
    /\ trace = <<>>
    /\ outcomes = <<>>
    /\ summary = <<>>

\* --------------------------------------------------------------- actions
\* main, lines 103-113: header and counters.
Main ==
    /\ pc = "main"
    /\ success_count' = 0
    /\ fail_count' = 0
    /\ pc' = "for"
    /\ UNCHANGED <<emailList, idx, recipient, html_content, server, exc, ret,
                   reason, open, nconn, trace, outcomes, summary>>

\* main, line 115: the for loop takes the next entry or ends.
ForNext ==
    /\ pc = "for"
    /\ IF idx < Len(emailList)
       THEN /\ idx' = idx + 1
            /\ recipient' = emailList[idx + 1]
            /\ pc' = "read"
            /\ html_content' = "None"
            /\ server' = 0
            /\ exc' = "none"
            /\ reason' = "none"
       ELSE /\ pc' = "summary"
            /\ UNCHANGED <<idx, recipient, html_content, server, exc, reason>>
    /\ UNCHANGED <<emailList, success_count, fail_count, ret, open, nconn,
                   trace, outcomes, summary>>

\* send_newsletter, lines 31-39: build the headers, read the template.
ReadTemplate ==
    /\ pc = "read"
    /\ \E file \in TemplateFiles :
         LET r == read_html_template(file) IN
         /\ trace' = Append(trace, Call("read", 0, file))
         /\ IF r.raised # "none"
            THEN /\ exc' = r.raised
                 /\ pc' = "except"
                 /\ UNCHANGED <<html_content, ret, reason>>
            ELSE /\ html_content' = r.val
                 /\ reason' = r.printed
                 /\ exc' = exc
                 /\ IF Not(r.val)
                    THEN ret' = FALSE /\ pc' = "return"
                    ELSE ret' = ret /\ pc' = After("read")
    /\ UNCHANGED <<emailList, idx, recipient, success_count, fail_count,
                   server, open, nconn, outcomes, summary>>

\* send_newsletter, line 74: smtplib.SMTP('smtp.gmail.com', 587).
Connect ==
    /\ pc = "connect"
    /\ \E res \in {"ok"} \cup Raises("connect") :
         IF res = "ConnectionRefusedError"
         THEN \* no connection was established
              /\ trace' = Append(trace, Call("connect", 0, res))
              /\ exc' = res
              /\ pc' = "except"
              /\ UNCHANGED <<server, open, nconn>>
         ELSE /\ nconn' = nconn + 1
              /\ trace' = Append(trace, Call("connect", nconn + 1, res))
              /\ IF res = "ok"
                 THEN /\ server' = nconn + 1
                      /\ open' = open \cup {nconn + 1}
                      /\ exc' = exc
                      /\ pc' = After("connect")
                 ELSE /\ exc' = res
                      /\ pc' = "except"
                      /\ UNCHANGED <<server, open>>
    /\ UNCHANGED <<emailList, idx, recipient, success_count, fail_count,
                   html_content, ret, reason, outcomes, summary>>

\* A call on the bound SMTP object: it returns, or raises e and the try
\* block is left for the except clauses.
OnServer(op) ==
    /\ \E res \in {"ok"} \cup Raises(op) :
         /\ trace' = Append(trace, Call(op, server, res))
         /\ IF res = "ok"
            THEN /\ pc' = After(op)
                 /\ exc' = exc
                 /\ open' = IF op = "quit" THEN open \ {server} ELSE open
            ELSE /\ pc' = "except"
                 /\ exc' = res
                 /\ open' = IF ClosedByLibrary(res) THEN open \ {server} ELSE open
         /\ IF op = "quit" /\ res = "ok"
            THEN ret' = TRUE /\ reason' = "sent"
            ELSE UNCHANGED <<ret, reason>>
    /\ UNCHANGED <<emailList, idx, recipient, success_count, fail_count,
                   html_content, server, nconn, outcomes, summary>>

\* send_newsletter, line 75: server.starttls().
Starttls ==
    /\ pc = "starttls"
    /\ OnServer("starttls")

\* send_newsletter, line 79: server.login(email, password).
Login ==
    /\ pc = "login"
    /\ OnServer("login")

\* send_newsletter, line 83: server.send_message(msg).
SendMessage ==
    /\ pc = "send_message"
    /\ OnServer("send_message")

\* Variant: an error of quit is swallowed and the attempt returns True.
QuitSwallowsError ==
    /\ pc = "quit"
    /\ \E res \in {"ok"} \cup Raises("quit") :
         trace' = Append(trace, Call("quit", server, res))
    /\ open' = open \ {server}
    /\ ret' = TRUE
    /\ reason' = "sent"
    /\ pc' = "return"
    /\ UNCHANGED <<emailList, idx, recipient, success_count, fail_count,
                   html_content, server, exc, nconn, outcomes, summary>>

\* send_newsletter, lines 86-89: server.quit(), success line, return True.
Quit ==
    /\ pc = "quit"
    /\ OnServer("quit")

\* send_newsletter, lines 91-99: the matching except clause prints its
\* line and returns False; an exception no clause matches leaves main.
Except ==
    /\ pc = "except"
    /\ IF Handler(exc) = "uncaught"
       THEN /\ pc' = "aborted"
            /\ UNCHANGED <<ret, reason>>
       ELSE /\ reason' = Handler(exc)
            /\ ret' = FALSE
            /\ pc' = "return"
    /\ UNCHANGED <<emailList, idx, recipient, success_count, fail_count,
                   html_content, server, exc, open, nconn, trace, outcomes,
                   summary>>

\* main, lines 116-120: count the attempt that returned.
Count ==
    /\ pc = "return"
    /\ success_count' = Tally(ret, success_count, fail_count)[1]
    /\ fail_count' = Tally(ret, success_count, fail_count)[2]
    /\ outcomes' = Append(outcomes,
                      [to |-> recipient, ret |-> ret, reason |-> reason,
                       server |-> server])
    /\ pc' = "for"
    /\ UNCHANGED <<emailList, idx, recipient, html_content, server, exc, ret,
                   reason, open, nconn, trace, summary>>

\* main, lines 122-126: the final summary.
Summary ==
    /\ pc = "summary"
    /\ summary' = <<success_count, fail_count>>
    /\ pc' = "done"
    /\ UNCHANGED <<emailList, idx, recipient, success_count, fail_count,
                   html_content, server, exc, ret, reason, open, nconn, trace,
                   outcomes>>

\* The runtime reclaims an SMTP object no running attempt refers to, which
\* closes its socket; when it does so is not determined by the program.
Collect ==
    /\ \E c \in open :
         /\ ~(c = server /\ pc \in {"starttls", "login", "send_message", "quit", "except"})
         /\ open' = open \ {c}
    /\ UNCHANGED <<emailList, pc, idx, recipient, success_count, fail_count,
                   html_content, server, exc, ret, reason, nconn, trace,
                   outcomes, summary>>

Step ==
    \/ Main
    \/ ForNext
    \/ ReadTemplate
    \/ Connect
    \/ Starttls
    \/ Login
    \/ SendMessage
    \/ Quit
    \/ Except
    \/ Count
    \/ Summary

Next == Step \/ Collect

Spec == Init /\ [][Next]_vars

\* The interpreter always runs the next statement; every call returns or raises.
FairSpec == Spec /\ WF_vars(Step)

TypeOK ==
    /\ pc \in {"main", "for", "read", "connect", "starttls", "login",
               "send_message", "quit", "except", "return", "summary",
               "done", "aborted"}
    /\ idx \in 0..Len(emailList)
    /\ success_count \in Nat /\ fail_count \in Nat
    /\ open \subseteq 1..nconn

\* ------------------------------------------------- reading the histories
\* The calls made during the k-th attempt, in order.
CallsOf(k) == SelectSeq(trace, LAMBDA c : c.k = k)

Ops(cs) == [i \in 1..Len(cs) |-> cs[i].op]

StepOrder == <<"read", "connect", "starttls", "login", "send_message", "quit">>

IsPrefix(s, t) == Len(s) <= Len(t) /\ \A i \in 1..Len(s) : s[i] = t[i]

Returned(op, k) == \E i \in 1..Len(CallsOf(k)) :
                      CallsOf(k)[i].op = op /\ CallsOf(k)[i].res = "ok"

RaisedIn(op, e, k) == \E i \in 1..Len(CallsOf(k)) :
                         CallsOf(k)[i].op = op /\ CallsOf(k)[i].res = e

TemplateAt(k) == CallsOf(k)[1].res

LastCall(k) == CallsOf(k)[Len(CallsOf(k))]

Transmitted == Len(SelectSeq(trace, LAMBDA c : c.op = "send_message" /\ c.res = "ok"))

InAttempt == {"read", "connect", "starttls", "login", "send_message", "quit",
              "except", "return"}

\* ---------------------------------------------------------------- claims
\* C1: the counters always sum to the number of recipients processed so
\* far (k after the k-th attempt was counted), every processed recipient
\* has exactly one outcome, and after the run the sum is the list length.
C1_CountersSumToProcessed ==
    /\ success_count + fail_count = Len(outcomes)
    /\ pc = "for" => success_count + fail_count = idx
    /\ pc \in InAttempt => success_count + fail_count = idx - 1
    /\ pc \in {"summary", "done"} => success_count + fail_count = Len(emailList)

C1_Witness ==
    /\ pc = "done"
    /\ Len(emailList) >= 2
    /\ emailList[1] = emailList[2]
    /\ success_count >= 1
    /\ fail_count >= 1

\* C2: no failure of an attempt leaves main: the run never aborts, under
\* fair scheduling it reaches the summary, every list position was
\* attempted, and an empty list gives the summary 0 / 0.
C2_BatchAlwaysCompletes ==
    /\ [](pc # "aborted")
    /\ <>(pc = "done")
    /\ [](pc = "done" =>
            /\ Len(outcomes) = Len(emailList)
            /\ \A k \in 1..Len(emailList) : CallsOf(k) # <<>>
            /\ summary = <<success_count, fail_count>>)
    /\ [](pc = "done" /\ emailList = <<>> => summary = <<0, 0>>)

C2_Witness ==
    /\ pc = "done"
    /\ Len(emailList) >= 2
    /\ outcomes[1].reason \in {"notfound", "auth", "smtp", "other"}
    /\ Len(CallsOf(2)) >= 2
    /\ summary = <<success_count, fail_count>>

\* C3: when an attempt that opened a connection returns, that connection
\* is closed.
C3_SessionClosedOnReturn ==
    pc = "return" /\ server # 0 => server \notin open

\* C4: the calls of one attempt are a prefix of read, connect, starttls,
\* login, send_message, quit; all but the last returned normally; all act
\* on one connection not used by an earlier attempt; the attempt returns
\* True only if all of them returned normally.
C4_StepsInOrder ==
    \A k \in 1..idx :
      LET cs == CallsOf(k) IN
      /\ IsPrefix(Ops(cs), StepOrder)
      /\ \A i \in 1..(Len(cs) - 1) : cs[i].res \in {"ok", "html"}
      /\ \A i \in 3..Len(cs) : cs[i].conn = cs[2].conn /\ cs[i].conn # 0
      /\ \A j \in 1..(k - 1) : \A i \in 2..Len(cs) : \A h \in 2..Len(CallsOf(j)) :
            cs[i].conn # 0 => cs[i].conn # CallsOf(j)[h].conn
      /\ k <= Len(outcomes) /\ outcomes[k].ret =>
            /\ Len(cs) = 6
            /\ \A i \in 2..6 : cs[i].res = "ok"

C4_Witness ==
    /\ pc = "done"
    /\ Len(outcomes) >= 2
    /\ ~outcomes[1].ret
    /\ RaisedIn("login", "SMTPServerDisconnected", 1)
    /\ outcomes[2].ret

\* C5: when every read of the run found the template missing, no attempt
\* reached the relay, nothing succeeded and every recipient failed.
C5_MissingTemplateFailsAll ==
    /\ \A k \in 1..idx :
         Len(CallsOf(k)) >= 1 /\ TemplateAt(k) = "missing" => Len(CallsOf(k)) = 1
    /\ (pc = "done" /\ \A k \in 1..Len(emailList) : TemplateAt(k) = "missing") =>
         /\ nconn = 0
         /\ \A i \in 1..Len(trace) : trace[i].op = "read"
         /\ \A k \in 1..Len(emailList) : ~outcomes[k].ret
         /\ summary = <<0, Len(emailList)>>

C5_Witness ==
    /\ pc = "done"
    /\ Len(emailList) >= 2
    /\ \A k \in 1..Len(emailList) : TemplateAt(k) = "missing"
    /\ fail_count = Len(emailList)

\* C6: when the relay rejected the login of every attempt, every outcome
\* carries the authentication reason, nothing was transmitted and the run
\* ends with 0 successes and one failure per recipient.
C6_AuthRejectedEverywhere ==
    (pc = "done" /\ \A k \in 1..Len(emailList) :
                      RaisedIn("login", "SMTPAuthenticationError", k)) =>
       /\ \A k \in 1..Len(emailList) :
            ~outcomes[k].ret /\ outcomes[k].reason = "auth"
       /\ Transmitted = 0
       /\ summary = <<0, Len(emailList)>>

C6_Witness ==
    /\ pc = "done"
    /\ Len(emailList) >= 2
    /\ \A k \in 1..Len(emailList) : RaisedIn("login", "SMTPAuthenticationError", k)
    /\ fail_count = Len(emailList)

\* C7 as stated: an attempt whose connect, starttls or send_message call
\* raised anything but an authentication rejection carries the
\* transport/protocol reason.
C7_RelayFailureIsTransport ==
    \A k \in 1..Len(outcomes) :
      (/\ LastCall(k).op \in {"connect", "starttls", "send_message"}
       /\ LastCall(k).res \notin {"ok", "SMTPAuthenticationError"})
      => outcomes[k].reason = "smtp"

\* C7 amended: such an attempt carries the transport/protocol reason when
\* the exception is an SMTPException, and the other/unexpected reason when
\* it is not (a refused connection, a failed TLS handshake); either way the
\* attempt fails.
C7_SmtpErrorIsTransport ==
    \A k \in 1..Len(outcomes) :
      (/\ LastCall(k).op \in {"connect", "starttls", "send_message"}
       /\ LastCall(k).res \notin {"ok", "SMTPAuthenticationError"})
      => /\ ~outcomes[k].ret
         /\ outcomes[k].reason =
              IF LastCall(k).res \in SMTPErrors THEN "smtp" ELSE "other"

C7_Witness ==
    /\ pc = "done"
    /\ Len(outcomes) >= 2
    /\ RaisedIn("connect", "ConnectionRefusedError", 1)
    /\ outcomes[1].reason = "other"
    /\ RaisedIn("send_message", "SMTPRecipientsRefused", 2)
    /\ outcomes[2].reason = "smtp"

\* The part of C8 about main alone: one attempt per list position, in list
\* order, each call of an attempt made before any call of a later attempt.
MainInOrder ==
    /\ idx - Len(outcomes) \in {0, 1}
    /\ \A k \in 1..Len(outcomes) : outcomes[k].to = emailList[k]
    /\ \A i \in 1..Len(trace) : \A j \in i..Len(trace) : trace[i].k <= trace[j].k
    /\ Len(SelectSeq(trace, LAMBDA c : c.op = "read")) = idx - (IF pc = "read" THEN 1 ELSE 0)
    /\ pc = "done" => Len(outcomes) = Len(emailList)

\* C8: one attempt per list position, in list order, one after the other,
\* and at most one relay session in progress at any moment.
C8_InOrderOneSession ==
    /\ MainInOrder
    /\ Cardinality(open) <= 1

\* C9: an attempt whose read found the template empty or missing returns
\* False without any call to the relay; an attempt calls the relay only
\* when its own read returned content.
C9_EmptyTemplateLikeMissing ==
    \A k \in 1..idx :
      LET cs == CallsOf(k) IN
      /\ Len(cs) >= 1 /\ cs[1].res \in {"empty", "missing"} =>
            /\ Len(cs) = 1
            /\ k <= Len(outcomes) => ~outcomes[k].ret /\ outcomes[k].server = 0
      /\ Len(cs) >= 2 => cs[1].res = "html"

C9_Witness ==
    /\ pc = "done"
    /\ Len(outcomes) >= 2
    /\ TemplateAt(1) = "empty"
    /\ ~outcomes[1].ret
    /\ TemplateAt(2) = "html"
    /\ Len(CallsOf(2)) >= 2

\* C10: an attempt returns True exactly when its quit returned normally;
\* an attempt whose message was transmitted but whose quit raised is
\* counted as failed; successes never exceed transmitted messages.
C10_SuccessRequiresQuit ==
    /\ \A k \in 1..Len(outcomes) :
         /\ outcomes[k].ret <=> Returned("quit", k)
         /\ Returned("send_message", k) /\ RaisedIn("quit", "SMTPServerDisconnected", k)
               => ~outcomes[k].ret
    /\ success_count <= Transmitted
    /\ success_count = Len(SelectSeq(outcomes, LAMBDA o : o.ret))

C10_Witness ==
    /\ pc = "done"
    /\ \E k \in 1..Len(outcomes) :
         /\ Returned("send_message", k)
         /\ RaisedIn("quit", "SMTPServerDisconnected", k)
         /\ ~outcomes[k].ret
    /\ fail_count >= 1
    /\ success_count < Transmitted

====
